---------------------------- MODULE Spec2Model ----------------------------
(***************************************************************************)
(* Model of the OSPP API views of lms/djangoapps/ospp_api/views.py:        *)
(* CreateUserView.post, EnrollUserView.post and SendCreditRequest.post,    *)
(* each acting on the relational records it reads and writes (user         *)
(* accounts, UserSocialAuth rows, course enrollments, OSPPEnrollmentFeature*)
(* rows, the audit log, CreditRequest rows and tracking events), of        *)
(* RoutView.get, and of the signal handler handle_score_changed of         *)
(* lms/djangoapps/gating/signals.py.                                       *)
(*                                                                         *)
(* A request handler runs as one action (a Django view handles a request   *)
(* in one thread); SpecCreditConc splits SendCreditRequest.post into its   *)
(* database statements so that two requests can interleave.                *)
(* An uncaught Python exception is the response status 500.                *)
(***************************************************************************)
EXTENDS Naturals, Sequences, FiniteSets

VARIABLES
    users,             \* student.models.User rows: users[i] is the row with id i
    socials,           \* social_django UserSocialAuth rows
    samlConfigured,    \* whether SAMLProviderConfig.objects.first() is a row
    enterpriseEnabled, \* enterprise_enabled()
    enrollments,       \* CourseEnrollment rows, at most one per user and course
    features,          \* OSPPEnrollmentFeature rows
    auditLog,          \* entries written by audit_log
    emailOptIn,        \* the email opt-in preference update_email_opt_in stores
    creditRequests,    \* CreditRequest rows, in order of creation
    events,            \* events emitted through eventtracking
    pc,                \* position of each concurrent SendCreditRequest.post
    gatingCalls,       \* calls of gating_api made by handle_score_changed
    req,               \* the request handled last
    resp,              \* the response to it
    nReq               \* number of requests handled

vars == <<users, socials, samlConfigured, enterpriseEnabled, enrollments, features,
          auditLog, emailOptIn, creditRequests, events, pc, gatingCalls, req, resp,
          nReq>>

\* Python's None, also the value of request.data.get for an absent key.
NoneV == "None"

\* Number of requests a behaviour handles.
MaxReq == 3

HTTP_400_BAD_REQUEST == 400
HTTP_406_NOT_ACCEPTABLE == 406
HTTP_200_OK == 200
HTTP_409_CONFLICT == 409
\* Django's answer to an exception no handler caught.
HTTP_500_SERVER_ERROR == 500

\* A user id no row has: the value of an absent, None, empty or zero user_id.
NoUserId == 0

\* Python truthiness of a request value: None and the empty string are false.
Truthy(v) == v # NoneV /\ v # ""

-----------------------------------------------------------------------------
(* CreateUserView *)

REQUIRED_CREATE_USER_PARAMS == <<"username", "email", "name_id">>

\* Request bodies of CreateUserView.post.  "e!" is an address the account
\* form rejects.
CreateUserRequests ==
    [view : {"create_user"},
     username : {NoneV, "", "u1", "u2"},
     email : {NoneV, "e1", "e2", "e!"},
     name_id : {NoneV, "n1", "n2"},
     first_name : {NoneV, "Ann"}]

UserIds == 1 .. Len(users)

\* update_user_data_with_default_params: the keys it adds.  data['username']
\* is read only when the stripped '<first> <last>' is empty; an absent key
\* there is a KeyError.
DefaultFirstName(data) == IF data.first_name = NoneV THEN "" ELSE data.first_name

DefaultParamsKeyError(data) ==
    DefaultFirstName(data) = "" /\ data.username = NoneV

\* missed_params_validation: the required parameters that are absent or empty.
MissedParams(data) ==
    {i \in 1 .. Len(REQUIRED_CREATE_USER_PARAMS) :
        ~Truthy(data[REQUIRED_CREATE_USER_PARAMS[i]])}

\* check_account_exists(email=, username=): some account has one of them.
MatchingUsers(data) ==
    {i \in UserIds : users[i].email = data.email \/ users[i].username = data.username}

CheckAccountExists(data) == MatchingUsers(data) # {}

\* User.objects.filter(Q(email) | Q(username)).first(): the row of least id.
FirstMatchingUser(data) ==
    CHOOSE i \in MatchingUsers(data) : \A j \in MatchingUsers(data) : i <= j

HasSocialAuth(uid) == \E s \in socials : s.user = uid

\* try_get_simple_user: the existing account without a social link (NoUserId
\* if no account matches), or the 409 response.
TryGetSimpleUserConflict(data) ==
    CheckAccountExists(data) /\ HasSocialAuth(FirstMatchingUser(data))

TryGetSimpleUser(data) ==
    IF CheckAccountExists(data) THEN FirstMatchingUser(data) ELSE NoUserId

\* create_account_with_params raises ValidationError on a rejected form.
AccountFormValid(data) == data.email # "e!"

\* create_new_user: the row it saves.
NewUserRow(data) ==
    [username |-> data.username, email |-> data.email, is_active |-> TRUE]

\* make_user_social: SAMLProviderConfig.objects.first().backend_name
BackendName == "saml"

SocialUid(idp_name, name_id) == idp_name \o ":" \o name_id

SocialRow(uid, data) ==
    [user |-> uid, provider |-> BackendName, uid |-> SocialUid(BackendName, data.name_id)]

CreateUserResponse(status, user_id, msg) ==
    [view |-> "create_user", status |-> status, user_id |-> user_id, message |-> msg]

CreateUserPost(data) ==
    /\ nReq < MaxReq
    /\ nReq' = nReq + 1
    /\ req' = data
    /\ UNCHANGED <<samlConfigured, gatingCalls, enterpriseEnabled, enrollments, features, auditLog,
                   emailOptIn, creditRequests, events, pc>>
    /\ IF DefaultParamsKeyError(data)
       THEN /\ resp' = CreateUserResponse(HTTP_500_SERVER_ERROR, NoUserId, "KeyError")
            /\ UNCHANGED <<users, socials>>
       ELSE IF MissedParams(data) # {}
       THEN /\ resp' = CreateUserResponse(HTTP_400_BAD_REQUEST, NoUserId,
                                          "Required parameter(s) were not provided")
            /\ UNCHANGED <<users, socials>>
       ELSE IF TryGetSimpleUserConflict(data)
       THEN /\ resp' = CreateUserResponse(HTTP_409_CONFLICT, FirstMatchingUser(data),
                                          "User already exists")
            /\ UNCHANGED <<users, socials>>
       ELSE IF TryGetSimpleUser(data) = NoUserId /\ ~AccountFormValid(data)
       THEN /\ resp' = CreateUserResponse(HTTP_400_BAD_REQUEST, NoUserId,
                                          "Wrong parameters on user creation")
            /\ UNCHANGED <<users, socials>>
       ELSE LET existing == TryGetSimpleUser(data)
                uid == IF existing # NoUserId THEN existing ELSE Len(users) + 1
            IN  /\ users' = IF existing # NoUserId THEN users
                            ELSE Append(users, NewUserRow(data))
                /\ IF samlConfigured
                   THEN /\ socials' = socials \cup {SocialRow(uid, data)}
                        /\ resp' = CreateUserResponse(HTTP_200_OK, uid, "")
                   ELSE /\ socials' = socials
                        /\ resp' = CreateUserResponse(HTTP_400_BAD_REQUEST, NoUserId,
                                       "Wrong Identity Provider's configuration")

CreateUser == \E data \in CreateUserRequests : CreateUserPost(data)

-----------------------------------------------------------------------------
(* EnrollUserView *)

\* Strings CourseKey.from_string accepts, and the courses the modulestore holds.
CourseKeys == {"Rom+RM1", "Rom+RM2"}
ExistingCourses == {"Rom+RM1"}

\* urllib.unquote(...).replace(' ', '+') on the course ids of the requests.
\* unquote(None) is an AttributeError, told by UnquoteRaises.
UnquoteRaises(raw) == raw = NoneV

UnquotePlus(raw) ==
    CASE raw = "Rom RM1" -> "Rom+RM1"
      [] raw = "Rom%2BRM2" -> "Rom+RM2"
      [] OTHER -> raw

\* isinstance(v, bool) and the boolean it is, for the JSON values of a request.
IsBool(v) == v \in {"true", "false"}
PyBool(v) == v = "true"

\* enrollment.views.REQUIRED_ATTRIBUTES.get(mode, [])
RequiredAttributes(mode) == IF mode = "credit" THEN {"credit:provider_id"} ELSE {}

\* Request bodies of EnrollUserView.post: every field absent unless given.
EnrollDefaults ==
    [view |-> "enroll", course_id |-> "Rom+RM1", user_id |-> 1, mode |-> NoneV,
     is_active |-> NoneV, partner_logo |-> NoneV, eligibility_status |-> NoneV,
     enterprise_course_consent |-> NoneV, enrollment_attributes |-> {},
     email_opt_in |-> NoneV]

EnrollRequests ==
    \* the course and the user
    {[EnrollDefaults EXCEPT !.course_id = c, !.user_id = u] :
        c \in {NoneV, "", "bad", "Rom RM1", "Rom%2BRM2"}, u \in 0 .. 3}
    \cup
    \* the mode and the activation
    {[EnrollDefaults EXCEPT !.user_id = u, !.mode = m, !.is_active = a] :
        u \in 1 .. 2, m \in {NoneV, "audit", "credit", "honor"},
        a \in {NoneV, "true", "false", "yes"}}
    \cup
    \* the side-record's fields, with a valid and with an invalid activation
    {[EnrollDefaults EXCEPT !.user_id = u, !.is_active = a,
                            !.partner_logo = l, !.eligibility_status = e] :
        u \in 1 .. 2, a \in {NoneV, "yes"}, l \in {NoneV, "logoA"},
        e \in {NoneV, "true"}}
    \cup
    \* the enterprise consent
    {[EnrollDefaults EXCEPT !.enterprise_course_consent = k] : k \in {"true", "yes"}}
    \cup
    \* the enrollment attributes
    {[EnrollDefaults EXCEPT !.mode = "credit", !.enrollment_attributes = t] :
        t \in {{"credit:provider_id"}, {"x:y"}}}
    \cup
    \* the email opt-in
    {[EnrollDefaults EXCEPT !.email_opt_in = "true"]}

\* The CourseEnrollment row of a user in a course, NoRow if there is none.
NoRow == [user |-> NoUserId]

EnrollmentsOf(rows, uid, course) == {r \in rows : r.user = uid /\ r.course = course}

GetEnrollment(rows, uid, course) ==
    IF EnrollmentsOf(rows, uid, course) = {} THEN NoRow
    ELSE CHOOSE r \in EnrollmentsOf(rows, uid, course) : TRUE

\* enrollment.api: the modes a course offers and the mode given to an
\* enrollment that names none.
CourseModes(course) == {"audit", "credit"}
DefaultCourseMode == "audit"

\* api.add_enrollment(username, course_id, mode, is_active): the error it
\* raises ("" if none) and the row it leaves.
AddEnrollmentError(rows, uid, course, mode) ==
    LET m == IF mode = NoneV THEN DefaultCourseMode ELSE mode
        old == GetEnrollment(rows, uid, course)
    IN  IF course \notin ExistingCourses THEN "CourseNotFoundError"
        ELSE IF m \notin CourseModes(course) THEN "CourseModeNotFoundError"
        ELSE IF old # NoRow /\ old.is_active THEN "CourseEnrollmentExistsError"
        ELSE ""

AddEnrollmentRow(uid, course, mode, is_active) ==
    [user |-> uid, course |-> course,
     mode |-> IF mode = NoneV THEN DefaultCourseMode ELSE mode,
     is_active |-> IF is_active = NoneV THEN TRUE ELSE PyBool(is_active)]

\* api.update_enrollment(username, course_id, mode, is_active)
UpdateEnrollmentError(rows, uid, course, mode) ==
    IF mode # NoneV /\ course \notin ExistingCourses THEN "CourseNotFoundError"
    ELSE IF mode # NoneV /\ mode \notin CourseModes(course) THEN "CourseModeNotFoundError"
    ELSE IF GetEnrollment(rows, uid, course) = NoRow THEN "CourseEnrollmentError"
    ELSE ""

UpdateEnrollmentRow(old, mode, is_active) ==
    [old EXCEPT !.mode = IF mode = NoneV THEN old.mode ELSE mode,
                !.is_active = IF is_active = NoneV THEN old.is_active
                              ELSE PyBool(is_active)]

PutEnrollment(rows, row) ==
    (rows \ EnrollmentsOf(rows, row.user, row.course)) \cup {row}

\* Lines 314-315: what the request changes of the enrollment found.
ModeChangedNever(enrollment, data) == FALSE

ModeChanged(enrollment, data) ==
    enrollment # NoRow /\ data.mode # NoneV /\ enrollment.mode # data.mode

ActiveChangedNever(enrollment, data) == FALSE

ActiveChanged(enrollment, data) ==
    /\ enrollment # NoRow
    /\ data.is_active # NoneV
    /\ enrollment.is_active # PyBool(data.is_active)

\* Lines 316-322
MissingAttrs(data) ==
    IF data.enrollment_attributes # {}
    THEN RequiredAttributes(data.mode) \ data.enrollment_attributes
    ELSE {}

\* What the try block of post ends with: the response, the api calls made,
\* the CourseEnrollment rows and the email opt-in it leaves.
TryResult(status, msg, calls, rows, optin) ==
    [status |-> status, message |-> msg, calls |-> calls, rows |-> rows, optin |-> optin]

ApiErrorResult(error, calls, rows) ==
    CASE error = "CourseModeNotFoundError" ->
            TryResult(HTTP_400_BAD_REQUEST, "course mode is expired or unavailable",
                      calls, rows, emailOptIn)
      [] error = "CourseNotFoundError" ->
            TryResult(HTTP_400_BAD_REQUEST, "No course found for enrollment",
                      calls, rows, emailOptIn)
      [] error = "CourseEnrollmentExistsError" ->
            TryResult(HTTP_200_OK, "enrollment exists", calls, rows, emailOptIn)
      [] OTHER ->
            TryResult(HTTP_400_BAD_REQUEST,
                      "An error occurred while creating the new course enrollment",
                      calls, rows, emailOptIn)

\* Lines 358-364, after the api call returned.
EnrolledResult(data, calls, rows) ==
    TryResult(HTTP_200_OK, "", calls, rows,
              IF data.email_opt_in # NoneV THEN data.email_opt_in ELSE emailOptIn)

\* Lines 312-356
EnrollOrUpdate(data, uid, course) ==
    LET enrollment == GetEnrollment(enrollments, uid, course)
        mode_changed == ModeChanged(enrollment, data)
        active_changed == ActiveChanged(enrollment, data)
    IN  IF mode_changed \/ active_changed
        THEN IF mode_changed /\ active_changed /\ ~PyBool(data.is_active)
             THEN TryResult(HTTP_400_BAD_REQUEST, "Enrollment mode mismatch",
                            {}, enrollments, emailOptIn)
             ELSE IF MissingAttrs(data) # {}
             THEN TryResult(HTTP_400_BAD_REQUEST, "Missing enrollment attributes",
                            {}, enrollments, emailOptIn)
             ELSE LET error == UpdateEnrollmentError(enrollments, uid, course, data.mode)
                  IN  IF error # ""
                      THEN ApiErrorResult(error, {"update_enrollment"}, enrollments)
                      ELSE EnrolledResult(data, {"update_enrollment"},
                               PutEnrollment(enrollments,
                                   UpdateEnrollmentRow(enrollment, data.mode, data.is_active)))
        ELSE LET error == AddEnrollmentError(enrollments, uid, course, data.mode)
             IN  IF error # ""
                 THEN ApiErrorResult(error, {"add_enrollment"}, enrollments)
                 ELSE EnrolledResult(data, {"add_enrollment"},
                          PutEnrollment(enrollments,
                              AddEnrollmentRow(uid, course, data.mode, data.is_active)))

\* Lines 277-396: the try block and its except clauses.  enterprise_fails: the
\* enterprise service answers with an EnterpriseApiException.
TryBlock(data, uid, course, enterprise_fails) ==
    IF data.is_active # NoneV /\ ~IsBool(data.is_active)
    THEN TryResult(HTTP_400_BAD_REQUEST, "invalid enrollment activation status",
                   {}, enrollments, emailOptIn)
    ELSE IF enterpriseEnabled /\ data.enterprise_course_consent # NoneV
            /\ ~IsBool(data.enterprise_course_consent)
    THEN TryResult(HTTP_400_BAD_REQUEST, "invalid enterprise course consent value",
                   {}, enrollments, emailOptIn)
    ELSE IF enterpriseEnabled /\ data.enterprise_course_consent # NoneV
            /\ enterprise_fails
    THEN ApiErrorResult("CourseEnrollmentError", {}, enrollments)
    ELSE EnrollOrUpdate(data, uid, course)

\* Lines 399-409: the finally block's write of the OSPPEnrollmentFeature row
\* of the enrollment: created if the enrollment has none, else updated.
FeaturesOf(rows, uid, course) == {f \in rows : f.user = uid /\ f.course = course}

FeatureRow(uid, course, data) ==
    [user |-> uid, course |-> course,
     partner_logo |-> IF data.partner_logo = NoneV THEN "" ELSE data.partner_logo,
     eligibility_status |-> IF data.eligibility_status = NoneV THEN FALSE
                            ELSE PyBool(data.eligibility_status)]

SaveFeatureAlwaysInsert(rows, uid, course, data) ==
    rows \cup {FeatureRow(uid, course, data)}

SaveFeature(rows, uid, course, data) ==
    IF FeaturesOf(rows, uid, course) = {}
    THEN rows \cup {FeatureRow(uid, course, data)}
    ELSE (rows \ FeaturesOf(rows, uid, course)) \cup {FeatureRow(uid, course, data)}

\* Lines 410-418: the entry audit_log writes (its name, course and user).
AuditEntry(uid, course) ==
    [name |-> "enrollment_change_requested", course_id |-> course, user_id |-> uid]

EnrollResponse(status, msg, calls) ==
    [view |-> "enroll", status |-> status, message |-> msg, calls |-> calls]

EnrollUserPost(data, enterprise_fails) ==
    /\ nReq < MaxReq
    /\ nReq' = nReq + 1
    /\ req' = data
    /\ UNCHANGED <<users, socials, samlConfigured, gatingCalls, enterpriseEnabled,
                   creditRequests, events, pc>>
    /\ IF UnquoteRaises(data.course_id)
       THEN /\ resp' = EnrollResponse(HTTP_500_SERVER_ERROR, "AttributeError", {})
            /\ UNCHANGED <<enrollments, features, auditLog, emailOptIn>>
       ELSE IF UnquotePlus(data.course_id) = ""
       THEN /\ resp' = EnrollResponse(HTTP_400_BAD_REQUEST,
                                      "Course ID must be specified", {})
            /\ UNCHANGED <<enrollments, features, auditLog, emailOptIn>>
       ELSE IF UnquotePlus(data.course_id) \notin CourseKeys
       THEN /\ resp' = EnrollResponse(HTTP_400_BAD_REQUEST,
                                      "No course found for enrollment", {})
            /\ UNCHANGED <<enrollments, features, auditLog, emailOptIn>>
       ELSE IF data.user_id = NoUserId
       THEN /\ resp' = EnrollResponse(HTTP_400_BAD_REQUEST,
                                      "User ID must be specified", {})
            /\ UNCHANGED <<enrollments, features, auditLog, emailOptIn>>
       ELSE IF data.user_id \notin UserIds
       THEN /\ resp' = EnrollResponse(HTTP_406_NOT_ACCEPTABLE,
                                      "The user does not exist", {})
            /\ UNCHANGED <<enrollments, features, auditLog, emailOptIn>>
       ELSE LET uid == data.user_id
                course == UnquotePlus(data.course_id)
                t == TryBlock(data, uid, course, enterprise_fails)
            IN  /\ enrollments' = t.rows
                /\ emailOptIn' = t.optin
                /\ IF GetEnrollment(t.rows, uid, course) = NoRow
                   THEN \* CourseEnrollment.objects.get raises DoesNotExist, which
                        \* replaces the response of the try block
                        /\ resp' = EnrollResponse(HTTP_500_SERVER_ERROR,
                                                  "DoesNotExist", t.calls)
                        /\ UNCHANGED <<features, auditLog>>
                   ELSE /\ features' = SaveFeature(features, uid, course, data)
                        /\ auditLog' = Append(auditLog, AuditEntry(uid, course))
                        /\ resp' = EnrollResponse(t.status, t.message, t.calls)

\* Line 302: the enterprise service is called, and may fail, only for a boolean
\* consent with the enterprise integration enabled.
EnterpriseCalled(data) ==
    /\ data.is_active = NoneV \/ IsBool(data.is_active)
    /\ enterpriseEnabled
    /\ IsBool(data.enterprise_course_consent)

EnrollUser ==
    \E data \in EnrollRequests :
        \E enterprise_fails \in IF EnterpriseCalled(data) THEN BOOLEAN ELSE {FALSE} :
            EnrollUserPost(data, enterprise_fails)

-----------------------------------------------------------------------------
(* SendCreditRequest *)

\* The requests of SendCreditRequest.post: the authenticated user (NoUserId:
\* anonymous) and the course_id of the body.
CreditRequests_In ==
    [view : {"credit"}, user : 0 .. 2,
     course_id : {NoneV, "bad", "Rom+RM1", "Rom+RM2"}]

\* Line 423-424: request.data['course_id'] of an absent key is a KeyError,
\* CourseKey.from_string of another string an InvalidKeyError.
CourseKeyRaises(course_id) == course_id \notin CourseKeys

\* Line 426
HasCreditEnrollmentAnyMode(uid, course_key) ==
    \E r \in enrollments : r.user = uid /\ r.course = course_key

HasCreditEnrollment(uid, course_key) ==
    \E r \in enrollments : r.user = uid /\ r.course = course_key /\ r.mode = "credit"

\* Line 428: CreditCourse.objects.filter(course_key=course_key).first(); the
\* courses that hold enrollments are credit courses.
CreditCourseOf(course_key) == IF course_key \in ExistingCourses THEN course_key ELSE NoneV

\* Line 429: the username of request.user
UsernameOf(uid) == IF uid \in UserIds THEN users[uid].username ELSE ""

\* Line 430
CreditRequestExistsApproved(rows, username, course) ==
    \E i \in 1 .. Len(rows) :
        /\ rows[i].username = username
        /\ rows[i].course = course
        /\ rows[i].status = "approved"

CreditRequestExists(rows, username, course) ==
    \E i \in 1 .. Len(rows) : rows[i].username = username /\ rows[i].course = course

REQUEST_STATUS_PENDING == "pending"

\* Lines 431-438
NewCreditRequest(username, course) ==
    [username |-> username, course |-> course, status |-> REQUEST_STATUS_PENDING]

\* Lines 439-445
CreditEventNoContext(username, course_id) ==
    [name |-> "credit.request.created", username |-> "", course_id |-> course_id]

CreditEvent(username, course_id) ==
    [name |-> "credit.request.created", username |-> username, course_id |-> course_id]

CreditResponse(status, body) == [view |-> "credit", status |-> status, body |-> body]

SendCreditRequestPost(data) ==
    /\ nReq < MaxReq
    /\ nReq' = nReq + 1
    /\ req' = data
    /\ UNCHANGED <<users, socials, samlConfigured, gatingCalls, enterpriseEnabled, enrollments,
                   features, auditLog, emailOptIn, pc>>
    /\ IF CourseKeyRaises(data.course_id)
       THEN /\ resp' = CreditResponse(HTTP_500_SERVER_ERROR, "exception")
            /\ UNCHANGED <<creditRequests, events>>
       ELSE IF ~HasCreditEnrollment(data.user, data.course_id)
       THEN /\ resp' = CreditResponse(HTTP_400_BAD_REQUEST, "wrongg enrollment type")
            /\ UNCHANGED <<creditRequests, events>>
       ELSE LET course == CreditCourseOf(data.course_id)
                username == UsernameOf(data.user)
            IN  /\ IF ~CreditRequestExists(creditRequests, username, course)
                   THEN /\ creditRequests' =
                               Append(creditRequests, NewCreditRequest(username, course))
                        /\ events' = Append(events, CreditEvent(username, data.course_id))
                   ELSE UNCHANGED <<creditRequests, events>>
                /\ resp' = CreditResponse(HTTP_200_OK, "ok")

SendCreditRequest == \E data \in CreditRequests_In : SendCreditRequestPost(data)

\* SendCreditRequest.post statement by statement, for requests handled at the
\* same time by different workers: pc[p] is where worker p stands.
NProcs == 2
Procs == 1 .. NProcs

Idle == [at |-> "idle"]

\* Lines 423-427
CreditBegin(p, data) ==
    /\ pc[p].at = "idle"
    /\ nReq < MaxReq
    /\ nReq' = nReq + 1
    /\ req' = data
    /\ pc' = [pc EXCEPT ![p] =
                IF CourseKeyRaises(data.course_id)
                THEN [at |-> "done", data |-> data, status |-> HTTP_500_SERVER_ERROR]
                ELSE IF ~HasCreditEnrollment(data.user, data.course_id)
                THEN [at |-> "done", data |-> data, status |-> HTTP_400_BAD_REQUEST]
                ELSE [at |-> "check", data |-> data, status |-> 0]]
    /\ UNCHANGED <<users, socials, samlConfigured, gatingCalls, enterpriseEnabled, enrollments,
                   features, auditLog, emailOptIn, creditRequests, events, resp>>

\* Lines 428-430: the query CreditRequest.objects.filter(...).exists()
CreditCheck(p) ==
    /\ pc[p].at = "check"
    /\ pc' = [pc EXCEPT ![p].at =
                IF CreditRequestExists(creditRequests, UsernameOf(pc[p].data.user),
                                       CreditCourseOf(pc[p].data.course_id))
                THEN "respond" ELSE "create"]
    /\ UNCHANGED <<users, socials, samlConfigured, gatingCalls, enterpriseEnabled, enrollments,
                   features, auditLog, emailOptIn, creditRequests, events, req, resp,
                   nReq>>

\* Lines 431-438: CreditRequest.objects.create(...)
CreditCreate(p) ==
    /\ pc[p].at = "create"
    /\ creditRequests' = Append(creditRequests,
                                NewCreditRequest(UsernameOf(pc[p].data.user),
                                                 CreditCourseOf(pc[p].data.course_id)))
    /\ pc' = [pc EXCEPT ![p].at = "emit"]
    /\ UNCHANGED <<users, socials, samlConfigured, gatingCalls, enterpriseEnabled, enrollments,
                   features, auditLog, emailOptIn, events, req, resp, nReq>>

\* Lines 439-445
CreditEmit(p) ==
    /\ pc[p].at = "emit"
    /\ events' = Append(events, CreditEvent(UsernameOf(pc[p].data.user),
                                            pc[p].data.course_id))
    /\ pc' = [pc EXCEPT ![p].at = "respond"]
    /\ UNCHANGED <<users, socials, samlConfigured, gatingCalls, enterpriseEnabled, enrollments,
                   features, auditLog, emailOptIn, creditRequests, req, resp, nReq>>

\* Line 447
CreditRespond(p) ==
    /\ pc[p].at = "respond"
    /\ pc' = [pc EXCEPT ![p].at = "done", ![p].status = HTTP_200_OK]
    /\ UNCHANGED <<users, socials, samlConfigured, gatingCalls, enterpriseEnabled, enrollments,
                   features, auditLog, emailOptIn, creditRequests, events, req, resp,
                   nReq>>

\* The worker hands the response over and takes the next request.
CreditFinish(p) ==
    /\ pc[p].at = "done"
    /\ resp' = CreditResponse(pc[p].status,
                              IF pc[p].status = HTTP_200_OK THEN "ok" ELSE "error")
    /\ pc' = [pc EXCEPT ![p] = Idle]
    /\ UNCHANGED <<users, socials, samlConfigured, gatingCalls, enterpriseEnabled, enrollments,
                   features, auditLog, emailOptIn, creditRequests, events, req, nReq>>

-----------------------------------------------------------------------------
(* RoutView *)

HTTP_302_FOUND == 302

\* settings.ECOMMERCE_PUBLIC_URL_ROOT
ECOMMERCE_PUBLIC_URL_ROOT == "https://ecommerce"

\* GET requests to RoutView: the page name of the URL and the course_id of the
\* query string (NoneV: no such parameter).
RoutRequests ==
    [view : {"rout"},
     lms_page_name : {"view", "audit", "get_credit", "pursue_credit", "dashboard", ""},
     course_id : {NoneV, "bad", "Rom+RM1", "Rom RM1", "Rom+RM2", "Rom RM2"}]

\* Line 483: request.GET['course_id'].replace(' ', '+'); an absent parameter
\* is a MultiValueDictKeyError.
CourseKeyFromRequest(raw) ==
    CASE raw = "Rom RM1" -> "Rom+RM1"
      [] raw = "Rom RM2" -> "Rom+RM2"
      [] OTHER -> raw

\* django reverse(name, course id): the URL of the named view for the course;
\* no URL matches a string that is no course id.
ReverseRaises(course_id) == course_id \notin CourseKeys
Reverse(name, course_id) == "/" \o name \o "/" \o course_id

\* course_home_url_name(course_key)
CourseHomeUrlName == "course_home"

\* Lines 485-489, 491-496, 498-501: the URL each handler redirects to, NoneV
\* if it raises.
RoutToCourse(raw) ==
    IF raw = NoneV \/ CourseKeyFromRequest(raw) \notin CourseKeys
       \/ ReverseRaises(CourseKeyFromRequest(raw))
    THEN NoneV
    ELSE Reverse(CourseHomeUrlName, CourseKeyFromRequest(raw))

RoutToCredit(raw) ==
    IF raw = NoneV THEN NoneV
    ELSE ECOMMERCE_PUBLIC_URL_ROOT \o "/credit/checkout/" \o CourseKeyFromRequest(raw) \o "/"

RoutToVerify(raw) ==
    IF raw = NoneV \/ ReverseRaises(CourseKeyFromRequest(raw)) THEN NoneV
    ELSE Reverse("ospp_api_v0:enrollments_status_update", CourseKeyFromRequest(raw))

\* Lines 503-510: the dict lookup on lms_page_name, with redirect('/') for a
\* name it does not hold.
RoutTargetAuditUnrouted(lms_page_name, raw) ==
    CASE lms_page_name = "view" -> RoutToCourse(raw)
      [] lms_page_name = "get_credit" -> RoutToCredit(raw)
      [] lms_page_name = "pursue_credit" -> RoutToVerify(raw)
      [] OTHER -> "/"

RoutTarget(lms_page_name, raw) ==
    CASE lms_page_name \in {"view", "audit"} -> RoutToCourse(raw)
      [] lms_page_name = "get_credit" -> RoutToCredit(raw)
      [] lms_page_name = "pursue_credit" -> RoutToVerify(raw)
      [] OTHER -> "/"

RoutGet(data) ==
    /\ nReq < MaxReq
    /\ nReq' = nReq + 1
    /\ req' = data
    /\ resp' = IF RoutTarget(data.lms_page_name, data.course_id) = NoneV
               THEN [view |-> "rout", status |-> HTTP_500_SERVER_ERROR, location |-> ""]
               ELSE [view |-> "rout", status |-> HTTP_302_FOUND,
                     location |-> RoutTarget(data.lms_page_name, data.course_id)]
    /\ UNCHANGED <<users, socials, samlConfigured, gatingCalls, enterpriseEnabled,
                   enrollments, features, auditLog, emailOptIn, creditRequests, events,
                   pc>>

Rout == \E data \in RoutRequests : RoutGet(data)

-----------------------------------------------------------------------------
(* lms/djangoapps/gating/signals.py *)

\* Usage keys of blocks the modulestore holds.
Blocks == {"block1", "block2"}

\* An identifier of a notification: a key object or the string of one.
KeyObject(value) == [type |-> "key", value |-> value]
KeyString(value) == [type |-> "str", value |-> value]

\* PROBLEM_WEIGHTED_SCORE_CHANGED notifications: user id, course key and
\* usage key, the keys as objects or as strings.
ScoreChangedSignals ==
    [view : {"score_changed"},
     course_id : {KeyObject(c) : c \in CourseKeys} \cup {KeyString(c) : c \in CourseKeys},
     usage_id : {KeyObject(b) : b \in Blocks} \cup {KeyString(b) : b \in Blocks},
     user_id : 1 .. 2]

\* CourseKey.from_string / UsageKey.from_string
KeyFromString(v) == KeyObject(v.value)

\* Lines 25-26: type(x) in (str, unicode) and Key.from_string(x) or x
ResolveKeyUnparsed(v) == v

ResolveKey(v) == IF v.type = "str" THEN KeyFromString(v) ELSE v

\* modulestore().get_course(course_key): None for a course it does not hold.
GetCourse(key) == IF key.value \in ExistingCourses THEN key.value ELSE NoneV

\* modulestore().get_item(usage_key)
GetItem(key) == key.value

GatingCall(fn, course, block, user_id) ==
    [fn |-> fn, course |-> course, block |-> block, user_id |-> user_id]

HandleScoreChanged(kwargs) ==
    /\ nReq < MaxReq
    /\ nReq' = nReq + 1
    /\ req' = kwargs
    /\ LET course_id == ResolveKey(kwargs.course_id)
           usage_id == ResolveKey(kwargs.usage_id)
       IN  IF course_id.type # "key" \/ usage_id.type # "key"
           THEN \* the modulestore raises on an identifier that is no key
                /\ gatingCalls' = gatingCalls
                /\ resp' = [view |-> "score_changed", status |-> HTTP_500_SERVER_ERROR]
           ELSE /\ gatingCalls' = gatingCalls \o
                      <<GatingCall("evaluate_prerequisite", GetCourse(course_id),
                                   GetItem(usage_id), kwargs.user_id),
                        GatingCall("evaluate_entrance_exam", GetCourse(course_id),
                                   GetItem(usage_id), kwargs.user_id)>>
                /\ resp' = [view |-> "score_changed", status |-> 0]
    /\ UNCHANGED <<users, socials, samlConfigured, enterpriseEnabled, enrollments,
                   features, auditLog, emailOptIn, creditRequests, events, pc>>

ScoreChanged == \E kwargs \in ScoreChangedSignals : HandleScoreChanged(kwargs)

-----------------------------------------------------------------------------
(* Specifications *)

\* Accounts registered before the first request: "u1" never activated its
\* account, "u2" did.  Neither has a UserSocialAuth row.
InitialUsers ==
    {<< >>,
     <<[username |-> "u1", email |-> "e1", is_active |-> FALSE]>>,
     <<[username |-> "u1", email |-> "e1", is_active |-> FALSE],
       [username |-> "u2", email |-> "e2", is_active |-> TRUE]>>}

\* Enrollments made before the first request: at most one per user and course.
InitialEnrollments(us) ==
    {rows \in SUBSET [user : 1 .. Len(us), course : ExistingCourses,
                      mode : {"audit", "credit"}, is_active : {TRUE}] :
        \A r1, r2 \in rows : (r1.user = r2.user /\ r1.course = r2.course) => r1 = r2}

Init ==
    /\ users \in InitialUsers
    /\ socials = {}
    /\ samlConfigured \in BOOLEAN
    /\ enterpriseEnabled \in BOOLEAN
    /\ enrollments \in InitialEnrollments(users)
    /\ features = {}
    /\ auditLog = << >>
    /\ emailOptIn = NoneV
    /\ creditRequests = << >>
    /\ events = << >>
    /\ pc = [p \in Procs |-> Idle]
    /\ gatingCalls = << >>
    /\ req = [view |-> "none"]
    /\ resp = [view |-> "none", status |-> 0]
    /\ nReq = 0

\* Requests to CreateUserView only.
InitCreateUser == Init /\ enrollments = {} /\ ~enterpriseEnabled
SpecCreateUser == InitCreateUser /\ [][CreateUser]_vars

\* Requests to EnrollUserView only.
InitEnroll == Init /\ samlConfigured /\ Len(users) = 2
SpecEnroll == InitEnroll /\ [][EnrollUser]_vars

\* Requests to SendCreditRequest only, one after another.
InitCredit == Init /\ samlConfigured /\ ~enterpriseEnabled
SpecCredit == InitCredit /\ [][SendCreditRequest]_vars

\* Requests to SendCreditRequest handled by NProcs workers at the same time.
CreditWorker(p) ==
    \/ \E data \in CreditRequests_In : CreditBegin(p, data)
    \/ CreditCheck(p)
    \/ CreditCreate(p)
    \/ CreditEmit(p)
    \/ CreditRespond(p)
    \/ CreditFinish(p)

NextCreditConc == \E p \in Procs : CreditWorker(p)
SpecCreditConc == InitCredit /\ [][NextCreditConc]_vars

\* Requests to RoutView only.
InitRout == Init /\ samlConfigured /\ ~enterpriseEnabled /\ enrollments = {}
SpecRout == InitRout /\ [][Rout]_vars

\* Score-change notifications only.
InitGating == Init /\ samlConfigured /\ ~enterpriseEnabled /\ enrollments = {}
SpecGating == InitGating /\ [][ScoreChanged]_vars

\* Requests to the three views, one after another.
Next == CreateUser \/ EnrollUser \/ SendCreditRequest
Spec == Init /\ [][Next]_vars

-----------------------------------------------------------------------------
(* Properties *)

\* The step handles a request to the view.
Handles(view) == nReq' = nReq + 1 /\ req'.view = view

\* The user has a CourseEnrollment row of mode 'credit' in the course.
EnrolledInCreditMode(uid, course) ==
    \E r \in enrollments : r.user = uid /\ r.course = course /\ r.mode = "credit"

SameCreditTarget(r1, r2) == r1.username = r2.username /\ r1.course = r2.course

CreditRowsFor(username, course) ==
    {i \in 1 .. Len(creditRequests) :
        creditRequests[i].username = username /\ creditRequests[i].course = course}

\* C2: with SendCreditRequest.post calls handled one after another, there is
\* at most one CreditRequest per username and course, and after a call by a
\* user enrolled in the course in credit mode there is exactly one, pending,
\* and the response is 200 {'status': 'ok'}: the first such call created it
\* and the later ones created none.
C2_OneCreditRequestPerPair ==
    /\ \A i, j \in 1 .. Len(creditRequests) :
          SameCreditTarget(creditRequests[i], creditRequests[j]) => i = j
    /\ (/\ req.view = "credit"
        /\ ~CourseKeyRaises(req.course_id)
        /\ EnrolledInCreditMode(req.user, req.course_id))
       => /\ resp.status = HTTP_200_OK
          /\ resp.body = "ok"
          /\ \E i \in 1 .. Len(creditRequests) :
                /\ CreditRowsFor(UsernameOf(req.user), req.course_id) = {i}
                /\ creditRequests[i].status = REQUEST_STATUS_PENDING

\* The third call, with a single account on record, is answered 200 and
\* one CreditRequest exists: the case of a call that finds the request of an
\* earlier one.
C2_Witness ==
    /\ req.view = "credit"
    /\ resp.status = HTTP_200_OK
    /\ nReq = 3
    /\ Len(creditRequests) = 1
    /\ Len(users) = 1

\* C3: with two SendCreditRequest.post calls running at the same time, no
\* state holds two CreditRequest rows of the same username and course.
C3_OneCreditRequestPerPairConcurrent ==
    \A i, j \in 1 .. Len(creditRequests) :
        (/\ creditRequests[i].username = creditRequests[j].username
         /\ creditRequests[i].course = creditRequests[j].course) => i = j

\* C4: the 'credit.request.created' events are those of the created requests:
\* one per CreditRequest, in the order of creation, carrying its username and
\* course id; a call that creates nothing emits nothing.
C4_EventPerCreatedRequest ==
    /\ Len(events) = Len(creditRequests)
    /\ \A i \in 1 .. Len(events) :
          /\ events[i].name = "credit.request.created"
          /\ events[i].username = creditRequests[i].username
          /\ events[i].course_id = creditRequests[i].course

\* A call that created nothing (400) after two that created a request each.
C4_Witness ==
    /\ req.view = "credit"
    /\ resp.status = HTTP_400_BAD_REQUEST
    /\ Len(creditRequests) = 2
    /\ Len(events) = 2

\* C5: a call by a user without a credit-mode enrollment in the requested
\* course is answered 400 and leaves the CreditRequest rows as they were, and
\* a call that creates a CreditRequest is by a user who has one.
C5_CreditEnrollmentRequired ==
    [][(Handles("credit") /\ ~CourseKeyRaises(req'.course_id))
        => /\ ~EnrolledInCreditMode(req'.user, req'.course_id)
              => (resp'.status = HTTP_400_BAD_REQUEST /\ creditRequests' = creditRequests)
           /\ creditRequests' # creditRequests
              => EnrolledInCreditMode(req'.user, req'.course_id)]_vars

\* A user enrolled in audit mode was refused while a request of another user
\* is on record.
C5_Witness ==
    /\ req.view = "credit"
    /\ resp.status = HTTP_400_BAD_REQUEST
    /\ req.user \in UserIds
    /\ \E r \in enrollments : r.user = req.user /\ r.course = req.course_id /\ r.mode = "audit"
    /\ Len(creditRequests) = 1

\* The request passes the course and user checks of EnrollUserView.post
\* (lines 236-269) and so reaches its try block.
PassesEnrollValidation(data) ==
    /\ ~UnquoteRaises(data.course_id)
    /\ UnquotePlus(data.course_id) \in CourseKeys
    /\ data.user_id \in UserIds

\* C1: when a request to EnrollUserView.post has finished, whatever its
\* outcome, the enrollment of the user in the course has an
\* OSPPEnrollmentFeature row holding the request's partner_logo and
\* eligibility_status, and one 'enrollment_change_requested' audit entry was
\* written.  Stated of the requests that pass the course and user checks,
\* whose finally block runs.
C1_SideRecordAndAuditAlways ==
    [][(Handles("enroll") /\ PassesEnrollValidation(req'))
        => /\ FeatureRow(req'.user_id, UnquotePlus(req'.course_id), req') \in features'
           /\ Len(auditLog') = Len(auditLog) + 1
           /\ auditLog'[Len(auditLog')].name = "enrollment_change_requested"]_vars

\* C6: a request to CreateUserView.post that names the username or the email
\* of an existing account (and gives the required parameters) is answered 409
\* and creates no user and no UserSocialAuth row.
C6_ConflictWhenAccountExists ==
    [][(/\ Handles("create_user")
        /\ ~DefaultParamsKeyError(req')
        /\ MissedParams(req') = {}
        /\ CheckAccountExists(req'))
        => /\ resp'.status = HTTP_409_CONFLICT
           /\ users' = users
           /\ socials' = socials]_vars

\* C7: a request to CreateUserView.post with username, email or name_id
\* absent or empty is answered 400 and changes no user and no UserSocialAuth
\* row.
C7_MissingParamsRejected ==
    [][(Handles("create_user") /\ MissedParams(req') # {})
        => /\ resp'.status = HTTP_400_BAD_REQUEST
           /\ users' = users
           /\ socials' = socials]_vars

\* C8: when CreateUserView.post answers 200 with a user_id, that user exists,
\* is active and has a UserSocialAuth row of the first SAML provider's backend
\* name with the uid '<backend name>:<name_id>'.
C8_CreatedUserActiveAndLinked ==
    (resp.view = "create_user" /\ resp.status = HTTP_200_OK)
    => /\ resp.user_id \in UserIds
       /\ users[resp.user_id].is_active
       /\ \E s \in socials :
             /\ s.user = resp.user_id
             /\ s.provider = BackendName
             /\ s.uid = BackendName \o ":" \o req.name_id

\* C9: EnrollUserView.post answers 400 to a course id that is absent, empty or
\* no course key, 400 to an unspecified user_id and 406 to the id of no user,
\* and in each case leaves enrollments, side-records and the audit log alone.
C9_EnrollValidationResponses ==
    [][Handles("enroll")
        => LET badCourse == \/ req'.course_id \in {NoneV, ""}
                            \/ UnquotePlus(req'.course_id) \notin CourseKeys
               untouched == /\ enrollments' = enrollments
                            /\ features' = features
                            /\ auditLog' = auditLog
           IN  /\ badCourse => (resp'.status = HTTP_400_BAD_REQUEST /\ untouched)
               /\ (~badCourse /\ req'.user_id = NoUserId)
                  => (resp'.status = HTTP_400_BAD_REQUEST /\ untouched)
               /\ (~badCourse /\ req'.user_id # NoUserId /\ req'.user_id \notin UserIds)
                  => (resp'.status = HTTP_406_NOT_ACCEPTABLE /\ untouched)]_vars

\* C10: a request to EnrollUserView.post whose is_active is neither absent
\* nor a boolean is answered 400 without a call of api.add_enrollment or
\* api.update_enrollment, with or without an enrollment of the user in the
\* course.
C10_InvalidActivationRejected ==
    [][(/\ Handles("enroll")
        /\ PassesEnrollValidation(req')
        /\ req'.is_active # NoneV
        /\ ~IsBool(req'.is_active))
        => /\ resp'.status = HTTP_400_BAD_REQUEST
           /\ resp'.calls = {}]_vars

\* C11: on a score-change notification handle_score_changed calls
\* gating_api.evaluate_prerequisite and then gating_api.evaluate_entrance_exam,
\* each once, both with the course and the block of the notification's
\* identifiers (given as keys or as strings) and with its user_id.
C11_GatingEvaluatedOncePerScoreChange ==
    [][Handles("score_changed")
        => LET course == IF req'.course_id.value \in ExistingCourses
                         THEN req'.course_id.value ELSE NoneV
               block == req'.usage_id.value
           IN  /\ Len(gatingCalls') = Len(gatingCalls) + 2
               /\ SubSeq(gatingCalls', 1, Len(gatingCalls)) = gatingCalls
               /\ gatingCalls'[Len(gatingCalls) + 1] =
                     [fn |-> "evaluate_prerequisite", course |-> course,
                      block |-> block, user_id |-> req'.user_id]
               /\ gatingCalls'[Len(gatingCalls) + 2] =
                     [fn |-> "evaluate_entrance_exam", course |-> course,
                      block |-> block, user_id |-> req'.user_id]]_vars

\* A notification that names the course by a string and the block by a key
\* was handled after an earlier one.
C11_Witness ==
    /\ req.view = "score_changed"
    /\ req.course_id.type = "str"
    /\ req.usage_id.type = "key"
    /\ Len(gatingCalls) = 4

\* The course id a GET request names: its course_id parameter with '+' for
\* each space.
RequestedCourse(data) ==
    CASE data.course_id \in {"Rom+RM1", "Rom RM1"} -> "Rom+RM1"
      [] data.course_id \in {"Rom+RM2", "Rom RM2"} -> "Rom+RM2"
      [] OTHER -> data.course_id

\* C14: RoutView.get answers by the page name alone: 'view' and 'audit'
\* redirect to the course home of the request's course, 'get_credit' to the
\* e-commerce credit checkout URL of its course_id, 'pursue_credit' to the
\* enrollment status update view of the course, and any other page name to
\* '/'.  The course pages are stated of requests that name a course, the
\* checkout page of requests that carry a course_id.
C14_RoutDispatch ==
    req.view = "rout"
    => LET page == req.lms_page_name
           course == RequestedCourse(req)
       IN  /\ (page \in {"view", "audit"} /\ course \in CourseKeys)
              => /\ resp.status = HTTP_302_FOUND
                 /\ resp.location = "/course_home/" \o course
           /\ (page = "get_credit" /\ req.course_id # NoneV)
              => /\ resp.status = HTTP_302_FOUND
                 /\ resp.location = "https://ecommerce/credit/checkout/" \o course \o "/"
           /\ (page = "pursue_credit" /\ course \in CourseKeys)
              => /\ resp.status = HTTP_302_FOUND
                 /\ resp.location = "/ospp_api_v0:enrollments_status_update/" \o course
           /\ page \notin {"view", "audit", "get_credit", "pursue_credit"}
              => /\ resp.status = HTTP_302_FOUND
                 /\ resp.location = "/"

\* The 'audit' page was asked for a course written with a space.
C14_Witness ==
    /\ req.view = "rout"
    /\ req.lms_page_name = "audit"
    /\ req.course_id = "Rom RM1"
    /\ resp.location = "/course_home/Rom+RM1"

\* C15: a CreateUserView.post request answered 400 leaves the user accounts
\* and the UserSocialAuth rows exactly as they were before the request.
C15_BadRequestChangesNothing ==
    [][(Handles("create_user") /\ resp'.status = HTTP_400_BAD_REQUEST)
        => /\ users' = users
           /\ socials' = socials]_vars

\* The CourseEnrollment rows of the user and the course an enrollment request
\* names.
RequestedEnrollments(rows, data) ==
    {r \in rows : r.user = data.user_id /\ r.course = UnquotePlus(data.course_id)}

\* The request names a mode, or an activation, other than that of the
\* enrollment it finds.
AsksOtherMode(data) ==
    \E r \in RequestedEnrollments(enrollments, data) :
        data.mode # NoneV /\ r.mode # data.mode

AsksOtherActivation(data) ==
    \E r \in RequestedEnrollments(enrollments, data) :
        data.is_active # NoneV /\ r.is_active # (data.is_active = "true")

\* A valid request: it passes the course and user checks, its is_active is
\* absent or a boolean, and it posts no consent to the enterprise service.
ValidEnrollRequest(data) ==
    /\ PassesEnrollValidation(data)
    /\ data.is_active \in {NoneV, "true", "false"}
    /\ ~(enterpriseEnabled /\ data.enterprise_course_consent # NoneV)

C13_DeactivationWithOtherModeRejected ==
    [][(/\ Handles("enroll")
        /\ PassesEnrollValidation(req')
        /\ req'.is_active = "false"
        /\ req'.mode # NoneV
        /\ \E r \in RequestedEnrollments(enrollments, req') :
              r.is_active /\ r.mode # req'.mode)
        => /\ resp'.status = HTTP_400_BAD_REQUEST
           /\ enrollments' = enrollments]_vars

\* The deactivation of an enrollment, still active, was refused for its mode.
C13_Witness ==
    /\ req.view = "enroll"
    /\ req.is_active = "false"
    /\ resp.status = HTTP_400_BAD_REQUEST
    /\ resp.message = "Enrollment mode mismatch"
    /\ \E r \in RequestedEnrollments(enrollments, req) : r.is_active /\ r.mode # req.mode

\* The OSPPEnrollmentFeature rows of the user and the course a request names.
RequestedFeatures(rows, data) ==
    {f \in rows : f.user = data.user_id /\ f.course = UnquotePlus(data.course_id)}

\* C16: over requests to EnrollUserView.post handled one after another, each
\* enrollment has at most one OSPPEnrollmentFeature row; a request that passes
\* the user validation, whether accepted or rejected with 400 later on, leaves
\* the row of its enrollment with its own partner_logo and eligibility_status
\* ('' and False for those it omits) and every other row as it was, and a
\* request that does not pass it changes no row.
C16_FeatureOfLastValidatedRequest ==
    /\ [][Handles("enroll")
           => IF PassesEnrollValidation(req')
                 /\ RequestedEnrollments(enrollments', req') # {}
              THEN /\ RequestedFeatures(features', req')
                        = {[user |-> req'.user_id,
                            course |-> UnquotePlus(req'.course_id),
                            partner_logo |-> IF req'.partner_logo = NoneV THEN ""
                                             ELSE req'.partner_logo,
                            eligibility_status |-> req'.eligibility_status = "true"]}
                   /\ features' \ RequestedFeatures(features', req')
                        = features \ RequestedFeatures(features, req')
              ELSE features' = features]_vars
    /\ [](\A f, g \in features : (f.user = g.user /\ f.course = g.course) => f = g)
    /\ [](\A f \in features :
             \E r \in enrollments : r.user = f.user /\ r.course = f.course)

\* A request rejected for its activation replaced the row an earlier request
\* had written.
C16_Witness ==
    /\ nReq >= 2
    /\ req.view = "enroll"
    /\ req.is_active = "yes"
    /\ req.partner_logo = NoneV
    /\ resp.status = HTTP_400_BAD_REQUEST
    /\ resp.message = "invalid enrollment activation status"
    /\ RequestedFeatures(features, req)
         = {[user |-> req.user_id, course |-> "Rom+RM1", partner_logo |-> "",
             eligibility_status |-> FALSE]}
    /\ Len(auditLog) = 2

=============================================================================
